---- MODULE Spec2Model ----
(***************************************************************************)
(* The REST layer of the knowledge agent (src/agent/api.py): one action    *)
(* per route handler.  Every handler runs to completion in one step; the   *)
(* calls it makes on its collaborators (validate_token, the strategy       *)
(* factory, the service object, the vector database) are recorded, in the  *)
(* order the handler makes them, in `trace`.  Respond ends the request:    *)
(* the vector database is the only state that survives it.                 *)
(***************************************************************************)
EXTENDS Integers, Sequences, FiniteSets, TLC

VARIABLES
    store,               \* collection name -> sequence of stored records, in insertion order
    collDim,             \* collection name -> provider whose vector size it was created with (None: no such collection)
    ALEPH_ALPHA_API_KEY, \* api.py:71, read once from the environment
    OPENAI_API_KEY,      \* api.py:70
    req,                 \* the request being served (endpoint "idle": none)
    trace,               \* the collaborator calls the handler made, in order
    resp,                \* what the handler returned or raised
    committed,           \* names of the inputs the handler stored completely
    embedFailed          \* did the handler's embedding batch fail

vars == <<store, collDim, ALEPH_ALPHA_API_KEY, OPENAI_API_KEY, req, trace, resp, committed, embedFailed>>

----------------------------------------------------------------------------
\* Bounds of the model.

\* Records the vector database holds at most, over all collections.
MaxRecords == 2

\* Files one upload request carries at most.
MaxFiles == 2

\* Messages of conversation history one request carries at most.
MaxHistory == 1

----------------------------------------------------------------------------
\* Values.

None == "None"

ALEPH_ALPHA == "aleph-alpha"
OPENAI == "openai"
GPT4ALL == "gpt4all"

\* LLMProvider, as the delete route enumerates it.
Providers == {ALEPH_ALPHA, OPENAI, GPT4ALL}

\* The providers that need a credential.
CloudProviders == {ALEPH_ALPHA, OPENAI}

\* What validate_token receives when a handler passes the whole LLMBackend
\* object where the provider is expected (api.py:135, api.py:181).
BackendObject == "LLMBackend-object"

\* The collection each provider's strategy uses when the request names none;
\* the names of the delete route and of the start-up initialisation.
DefaultCollection(p) == p

CustomCollections == {"c1"}

Collections == {DefaultCollection(p) : p \in Providers} \cup CustomCollections

\* llm_backend.collection_name is optional.
CollectionNames == {None} \cup CustomCollections

\* The token a request carries: none, a credential of Aleph Alpha, one of OpenAI.
ExplicitTokens == {None, "aa-tok", "oa-tok"}

\* The environments the process is started in: one of the two keys is set.
Environments ==
    {[aleph_alpha |-> "aa-key", openai |-> None], [aleph_alpha |-> None, openai |-> "oa-key"]}

IsEmptyToken(t) == t \in {None, ""}

\* What the local provider's strategy is given for a credential.
LocalToken == "local"

Queries == {None, "sky", "fog"}

FileNames == {"doc.pdf", "b.txt"}

\* The page break of a document file.
PageBreak == "\f"

\* The separators the text requests name.
Separators == {PageBreak}

\* The content of an uploaded file, by its name, as a token sequence.
FileContent(name) == IF name = "doc.pdf" THEN <<"sea", PageBreak, "sky">> ELSE <<"sky">>

\* The files the document loader picks up: file_ending="*.pdf" (api.py:100).
IsPdf(name) == name \in {"doc.pdf"}

TopKs == {1, MaxRecords}

----------------------------------------------------------------------------
\* Pure helpers of the collaborators.

RECURSIVE SplitFrom(_, _, _, _)
\* The chunks of text[i..] given the chunk `cur` collected so far.
SplitFrom(text, sep, i, cur) ==
    IF i > Len(text)
    THEN IF cur = <<>> THEN <<>> ELSE <<cur>>
    ELSE IF text[i] = sep
         THEN (IF cur = <<>> THEN <<>> ELSE <<cur>>) \o SplitFrom(text, sep, i + 1, <<>>)
         ELSE SplitFrom(text, sep, i + 1, Append(cur, text[i]))

\* Separator-based chunking of raw text: the pieces between separators,
\* empty pieces dropped.
Split(text, sep) == SplitFrom(text, sep, 1, <<>>)

\* The chunks of one input unit, tagged with their position and source.
ChunksOf(text, sep, source) ==
    LET parts == Split(text, sep)
    IN  [i \in 1..Len(parts) |-> [text |-> parts[i], page |-> i, source |-> source]]

RECURSIVE FlattenChunks(_, _)
\* The chunks of a sequence of files, file after file.
FlattenChunks(names, sep) ==
    IF names = <<>> THEN <<>>
    ELSE ChunksOf(FileContent(Head(names)), sep, Head(names)) \o FlattenChunks(Tail(names), sep)

RECURSIVE combine_text_from_list(_)
\* The texts of a list joined into one text, a line break between them.
combine_text_from_list(texts) ==
    IF texts = <<>> THEN <<>>
    ELSE IF Len(texts) = 1 THEN <<Head(texts)>>
    ELSE <<Head(texts), "\n">> \o combine_text_from_list(Tail(texts))

\* Similarity of a query word and a stored word (higher is closer; 0 is the
\* relevance floor).
Related(q, w) ==
    IF q = w THEN 2
    ELSE IF (q = "fog" /\ w = "sky") \/ (q = "sky" /\ w = "sea") THEN 1
    ELSE 0

Max(S) == CHOOSE m \in S : \A n \in S : n <= m

\* Similarity of a query and a stored chunk.
Score(q, text) == Max({0} \cup {Related(q, text[i]) : i \in 1..Len(text)})

----------------------------------------------------------------------------
\* The vector database (consumed through the service object).

TotalRecords(st) ==
    LET RECURSIVE Sum(_)
        Sum(S) == IF S = {} THEN 0
                  ELSE LET c == CHOOSE c \in S : TRUE IN Len(st[c]) + Sum(S \ {c})
    IN  Sum(Collections)

\* Does a stored record satisfy a metadata filter.  A filter names a source
\* or None, and a set of pages (empty: any page).
Matches(r, fsource, fpages) ==
    /\ (fsource = None \/ r.source = fsource)
    /\ (fpages = {} \/ r.page \in fpages)

RECURSIVE Rank(_, _, _)
\* The indices of `idxs` by descending score, the earlier insertion first
\* among equal scores.
Rank(recs, q, idxs) ==
    IF idxs = {} THEN <<>>
    ELSE LET best == CHOOSE i \in idxs :
                        \A j \in idxs :
                            \/ Score(q, recs[i].text) > Score(q, recs[j].text)
                            \/ (Score(q, recs[i].text) = Score(q, recs[j].text) /\ i <= j)
         IN  <<best>> \o Rank(recs, q, idxs \ {best})

\* search(collection, query_vector, top_k, metadata_filter): up to top_k
\* matching records above the relevance floor, best first, as (document,
\* score) pairs.
StoreSearch(st, coll, q, top_k, fsource, fpages) ==
    LET recs == st[coll]
        hit  == {i \in 1..Len(recs) : Matches(recs[i], fsource, fpages) /\ Score(q, recs[i].text) > 0}
        ord  == Rank(recs, q, hit)
        n    == IF Len(ord) < top_k THEN Len(ord) ELSE top_k
    IN  [k \in 1..n |-> [doc |-> recs[ord[k]], score |-> Score(q, recs[ord[k]].text)]]

\* delete(collection, page, source): the records that match neither stay.
StoreDelete(st, coll, page, source) ==
    [st EXCEPT ![coll] = SelectSeq(st[coll], LAMBDA r : ~(r.page = page /\ r.source = source))]

----------------------------------------------------------------------------
\* Records of the model.

NoPrompt == [template |-> None, chunks |-> <<>>, history |-> <<>>]

\* One collaborator call: what was called, for which provider, with which
\* credential, on which collection, with which prompt.
Ev(op, prov, token, coll, prompt) ==
    [op |-> op, prov |-> prov, token |-> token, coll |-> coll, prompt |-> prompt]

NoFilter == [source |-> None, pages |-> {}]

\* A request: the llm_backend it names, and the fields only some routes read.
Req(endpoint, provider, token, coll) ==
    [endpoint |-> endpoint, provider |-> provider, token |-> token, collection_name |-> coll,
     query |-> None, names |-> <<>>, history |-> <<>>, filter |-> NoFilter, top_k |-> 0,
     page |-> 0, source |-> None]

Idle == Req("idle", None, None, None)

Resp(status, error, shape, results, files, prompt, answer) ==
    [status |-> status, error |-> error, shape |-> shape, results |-> results,
     files |-> files, prompt |-> prompt, answer |-> answer]

NoResp == Resp("none", None, "none", <<>>, <<>>, NoPrompt, <<>>)

\* A raised exception: the caller gets the error and nothing else.
Raise(error) == Resp("error", error, "exception", <<>>, <<>>, NoPrompt, <<>>)

\* What a handler leaves behind when it stores nothing.
Done(t, rsp) ==
    [trace |-> t, resp |-> rsp, store |-> store, collDim |-> collDim,
     committed |-> {}, failed |-> FALSE]

----------------------------------------------------------------------------
\* Credential resolution and strategy selection.

FallbackFor(llm_backend) ==
    IF llm_backend = ALEPH_ALPHA THEN ALEPH_ALPHA_API_KEY
    ELSE IF llm_backend = OPENAI THEN OPENAI_API_KEY
    ELSE None

\* validate_token(token, llm_backend, aleph_alpha_key, openai_key): the explicit
\* value first, then the fallback configured for the provider, else an error.
\* The local provider needs no credential.  `other` is the fallback taken when
\* the argument is no provider at all, which nothing specifies.
validate_token(token, llm_backend, other) ==
    IF ~IsEmptyToken(token) THEN [ok |-> TRUE, token |-> token]
    ELSE IF llm_backend = GPT4ALL THEN [ok |-> TRUE, token |-> LocalToken]
    ELSE LET fb == IF llm_backend \in Providers THEN FallbackFor(llm_backend) ELSE other
         IN  IF IsEmptyToken(fb) THEN [ok |-> FALSE, token |-> None]
             ELSE [ok |-> TRUE, token |-> fb]

\* LLMStrategyFactory.get_strategy(strategy_type, token, collection_name): the
\* handle of one provider binding, on the named collection or the provider's
\* own.  The factory takes the credential as it is given.
get_strategy(strategy_type, token, collection_name) ==
    IF strategy_type \notin Providers
    THEN [ok |-> FALSE, error |-> "UnsupportedProviderError", provider |-> strategy_type,
          token |-> token, collection |-> None]
    ELSE [ok |-> TRUE, error |-> None, provider |-> strategy_type, token |-> token,
          collection |-> IF collection_name = None THEN DefaultCollection(strategy_type)
                         ELSE collection_name]

\* Does the provider accept this credential: a cloud provider accepts its own,
\* the local one needs none.
Accepts(provider, token) ==
    IF provider = ALEPH_ALPHA THEN token \in {"aa-tok", "aa-key"}
    ELSE IF provider = OPENAI THEN token \in {"oa-tok", "oa-key"}
    ELSE TRUE

\* Does the provider serve a call made with this credential.  What a call without
\* a credential of its own falls back on is specified nowhere: `net` decides it.
Served(provider, token, net) ==
    Accepts(provider, token) \/ (IsEmptyToken(token) /\ net)

----------------------------------------------------------------------------
\* The service object's operations.

\* service.embed_documents: chunk after chunk, embed with the binding's model
\* and upsert into the binding's collection; the first failure aborts the rest.
\* failAt is the chunk whose embedding call fails (0: none does).
ServiceEmbed(strategy, chunks, failAt, r) ==
    LET coll  == strategy.collection
        fits  == collDim[coll] = strategy.provider
        auth  == Accepts(strategy.provider, strategy.token)
        done  == IF ~auth \/ ~fits THEN 0
                 ELSE IF failAt # 0 THEN failAt - 1
                 ELSE Len(chunks)
        new   == [k \in 1..done |->
                    [text |-> chunks[k].text, page |-> chunks[k].page, source |-> chunks[k].source,
                     reqProvider |-> r.provider, reqCollection |-> r.collection_name]]
        error == IF chunks = <<>> THEN None
                 ELSE IF ~auth THEN "ExternalServiceError"
                 ELSE IF failAt = 1 THEN "ExternalServiceTimeoutError"
                 ELSE IF ~fits THEN "DimensionMismatchError"
                 ELSE IF failAt # 0 THEN "ExternalServiceTimeoutError"
                 ELSE None
    IN  [store |-> [store EXCEPT ![coll] = store[coll] \o new],
         error |-> error,
         stored |-> {chunks[k].source : k \in 1..done}
                     \ {chunks[k].source : k \in (done + 1)..Len(chunks)}]

\* service.search: embed the query with the binding's model, then search the
\* binding's collection.  A query vector of another size than the collection's
\* is an outcome nothing specifies: `lenient` says whether the store answers.
ServiceSearch(strategy, q, top_k, filter, lenient) ==
    IF ~Accepts(strategy.provider, strategy.token)
    THEN [ok |-> FALSE, error |-> "ExternalServiceError", docs |-> <<>>]
    ELSE IF collDim[strategy.collection] = strategy.provider
       \/ (lenient /\ collDim[strategy.collection] # None)
    THEN [ok |-> TRUE, error |-> None,
          docs |-> StoreSearch(store, strategy.collection, q, top_k, filter.source, filter.pages)]
    ELSE [ok |-> FALSE, error |-> "DimensionMismatchError", docs |-> <<>>]

\* The (document, score) pairs the service hands to a handler.
AsDocuments(found) ==
    [i \in 1..Len(found) |->
        [doc |-> [page_content |-> found[i].doc.text,
                  metadata |-> [page |-> found[i].doc.page, source |-> found[i].doc.source]],
         score |-> found[i].score]]

\* service.summarize_text: one completion call on the summarize template.
SummarizePrompt(text) == [template |-> "summarize", chunks |-> <<>>, history |-> text]

\* The completion of a summarize prompt.
Summary(text) == <<"summary-of">> \o text

\* The prompt service.rag assembles: the instruction template, the retrieved
\* chunks in search-result order, and the history of the request it is given.
RagPrompt(docs, history) ==
    [template |-> "qa", chunks |-> [i \in 1..Len(docs) |-> docs[i].doc.page_content],
     history |-> history]

\* The completion of a prompt.
Completion(prompt) == <<"answer-to", prompt.template>>

----------------------------------------------------------------------------
\* Inputs of the handlers.

\* The uploads of one request: file names, None for an upload without one.
FileLists == UNION {[1..n -> FileNames \cup {None}] : n \in 0..MaxFiles}

RECURSIVE Dedup(_)
\* The files a temporary folder holds after the uploads were written to it one
\* by one: a later upload of the same name overwrites the earlier one.
Dedup(names) ==
    IF names = <<>> THEN <<>>
    ELSE LET rest == Dedup(Tail(names))
         IN  IF \E i \in 1..Len(rest) : rest[i] = Head(names) THEN rest
             ELSE <<Head(names)>> \o rest

\* Has one of the uploads no name.
HasUnnamed(names) == \E i \in 1..Len(names) : names[i] = None

----------------------------------------------------------------------------
\* The route handlers: what each leaves behind, given the state it runs in.

\* POST /collection/create/{llm_provider}/{collection_name}
create_collection(llm_provider, collection_name) ==
    LET s == get_strategy(llm_provider, "", collection_name)
        t == <<Ev("get_strategy", llm_provider, "", collection_name, NoPrompt)>>
    IN  IF ~s.ok THEN Done(t, Raise(s.error))
        ELSE [Done(Append(t, Ev("create_collection", s.provider, s.token, collection_name, NoPrompt)),
                   Resp("ok", None, "message", <<>>, <<>>, NoPrompt, <<>>))
                EXCEPT !.collDim = IF collDim[collection_name] = None
                                   THEN [collDim EXCEPT ![collection_name] = s.provider]
                                   ELSE collDim]

\* What an embedding handler leaves behind once its strategy `s` is built and
\* its inputs are chunked: the service call, then the success response naming
\* `listed`, or the exception of the service call.
EmbedWith(r, t, s, chunks, failAt, listed) ==
    LET e == ServiceEmbed(s, chunks, failAt, r)
    IN  [trace |-> Append(t, Ev("embed_documents", s.provider, s.token, s.collection, NoPrompt)),
         resp |-> IF e.error # None THEN Raise(e.error)
                  ELSE Resp("ok", None, "EmbeddingResponse", <<>>, listed, NoPrompt, <<>>),
         store |-> e.store, collDim |-> collDim,
         committed |-> e.stored, failed |-> e.error # None]

\* The chunks the document loader makes of an upload folder.
DocumentChunks(files) == FlattenChunks(SelectSeq(Dedup(files), IsPdf), PageBreak)

\* POST /embeddings/documents
post_embedd_documents(llm_backend, files, other, failAt) ==
    LET r  == Req("embed_documents", llm_backend.llm_provider, llm_backend.token,
                  llm_backend.collection_name)
        v  == validate_token(llm_backend.token, BackendObject, other)
        t1 == <<Ev("validate_token", BackendObject, v.token, None, NoPrompt)>>
        s  == get_strategy(ALEPH_ALPHA, v.token, llm_backend.collection_name)
        t2 == Append(t1, Ev("get_strategy", ALEPH_ALPHA, v.token, llm_backend.collection_name, NoPrompt))
    IN  IF ~v.ok THEN Done(t1, Raise("MissingCredentialError"))
        ELSE IF ~s.ok THEN Done(t2, Raise(s.error))
        ELSE IF HasUnnamed(files) THEN Done(t2, Raise("ValueError"))
        ELSE EmbedWith(r, t2, s, DocumentChunks(files), failAt, files)

\* POST /embeddings/text/
embedd_text(embedding, llm_backend, other, failAt) ==
    LET r  == Req("embed_text", llm_backend.llm_provider, llm_backend.token,
                  llm_backend.collection_name)
        v  == validate_token(llm_backend.token, BackendObject, other)
        t1 == <<Ev("validate_token", BackendObject, v.token, None, NoPrompt)>>
        s  == get_strategy(llm_backend.llm_provider, v.token, llm_backend.collection_name)
        t2 == Append(t1, Ev("get_strategy", llm_backend.llm_provider, v.token,
                            llm_backend.collection_name, NoPrompt))
        chunks == ChunksOf(embedding.text, embedding.seperator, embedding.file_name)
    IN  IF ~v.ok THEN Done(t1, Raise("MissingCredentialError"))
        ELSE IF ~s.ok THEN Done(t2, Raise(s.error))
        ELSE EmbedWith(r, t2, s, chunks, failAt, <<embedding.file_name>>)

\* POST /embeddings/texts/files
embedd_text_files(embedding, llm_backend, failAt) ==
    LET r  == Req("embed_text_files", llm_backend.llm_provider, llm_backend.token,
                  llm_backend.collection_name)
        v  == validate_token(llm_backend.token, llm_backend.llm_provider, None)
        t1 == <<Ev("validate_token", llm_backend.llm_provider, v.token, None, NoPrompt)>>
        s  == get_strategy(llm_backend.llm_provider, v.token, llm_backend.collection_name)
        t2 == Append(t1, Ev("get_strategy", llm_backend.llm_provider, v.token,
                            llm_backend.collection_name, NoPrompt))
    IN  IF HasUnnamed(embedding.files) THEN Done(<<>>, Raise("ValueError"))
        ELSE IF ~v.ok THEN Done(t1, Raise("MissingCredentialError"))
        ELSE IF ~s.ok THEN Done(t2, Raise(s.error))
        ELSE EmbedWith(r, t2, s, FlattenChunks(Dedup(embedding.files), embedding.seperator),
                       failAt, embedding.files)

\* The response list built by inserting each entry at the front instead of
\* appending it.
SearchResponses_inserts_first(docs) ==
    [i \in 1..Len(docs) |->
        [text |-> docs[Len(docs) + 1 - i].doc.page_content,
         page |-> docs[Len(docs) + 1 - i].doc.metadata.page,
         source |-> docs[Len(docs) + 1 - i].doc.metadata.source,
         score |-> docs[Len(docs) + 1 - i].score]]

\* The response list of the search route: one SearchResponse per (document,
\* score) pair, appended in the order of the pairs.
SearchResponses(docs) ==
    [i \in 1..Len(docs) |->
        [text |-> docs[i].doc.page_content, page |-> docs[i].doc.metadata.page,
         source |-> docs[i].doc.metadata.source, score |-> docs[i].score]]

\* POST /semantic/search
search(s_req, llm_backend, filtering, lenient) ==
    LET v  == validate_token(llm_backend.token, llm_backend.llm_provider, None)
        t1 == <<Ev("validate_token", llm_backend.llm_provider, v.token, None, NoPrompt)>>
        s  == get_strategy(llm_backend.llm_provider, v.token, llm_backend.collection_name)
        t2 == Append(t1, Ev("get_strategy", llm_backend.llm_provider, v.token,
                            llm_backend.collection_name, NoPrompt))
        f  == ServiceSearch(s, s_req.query, s_req.amount, filtering, lenient)
        t3 == Append(t2, Ev("search", s.provider, s.token, s.collection, NoPrompt))
        docs == AsDocuments(f.docs)
    IN  IF ~v.ok THEN Done(t1, Raise("MissingCredentialError"))
        ELSE IF ~s.ok THEN Done(t2, Raise(s.error))
        ELSE IF ~f.ok THEN Done(t3, Raise(f.error))
        ELSE IF docs = <<>>
        THEN Done(t3, Resp("ok", None, "message", <<>>, <<>>, NoPrompt, <<>>))
        ELSE Done(t3, Resp("ok", None, "list", SearchResponses(docs), <<>>, NoPrompt, <<>>))

\* service.rag(rag, llm_backend, filtering) after the calls of t: search,
\* prompt assembly, completion.
ServiceRag(t, s, rag, filtering, lenient) ==
    LET f  == ServiceSearch(s, rag.search.query, rag.search.amount, filtering, lenient)
        t1 == Append(t, Ev("search", s.provider, s.token, s.collection, NoPrompt))
        prompt == RagPrompt(AsDocuments(f.docs), combine_text_from_list(rag.history))
        t2 == Append(t1, Ev("complete", s.provider, s.token, s.collection, prompt))
    IN  IF ~f.ok THEN Done(t1, Raise(f.error))
        ELSE Done(t2, Resp("ok", None, "QAResponse", <<>>, <<>>, prompt, Completion(prompt)))

\* The handler from its history step on: the summarize call when there is
\* history, its result dropped, then service.rag on the request as it came.
AnswerWith(t, s, rag, filtering, lenient, net) ==
    LET text == combine_text_from_list(rag.history)
        t1 == Append(t, Ev("summarize", s.provider, "", s.collection, SummarizePrompt(text)))
    IN  IF rag.history # <<>>
        THEN IF ~Served(s.provider, "", net) THEN Done(t1, Raise("ExternalServiceError"))
             ELSE ServiceRag(t1, s, rag, filtering, lenient)
        ELSE ServiceRag(t, s, rag, filtering, lenient)

\* The handler with the query check moved behind the credential resolution.
question_answer_checks_late(rag, llm_backend, filtering, lenient, net) ==
    LET v  == validate_token(llm_backend.token, llm_backend.llm_provider, None)
        t1 == <<Ev("validate_token", llm_backend.llm_provider, v.token, None, NoPrompt)>>
        s  == get_strategy(llm_backend.llm_provider, v.token, llm_backend.collection_name)
        t2 == Append(t1, Ev("get_strategy", llm_backend.llm_provider, v.token,
                            llm_backend.collection_name, NoPrompt))
    IN  IF ~v.ok THEN Done(t1, Raise("MissingCredentialError"))
        ELSE IF rag.search.query = None THEN Done(t1, Raise("MissingQueryError"))
        ELSE IF ~s.ok THEN Done(t2, Raise(s.error))
        ELSE AnswerWith(t2, s, rag, filtering, lenient, net)

\* POST /rag
question_answer(rag, llm_backend, filtering, lenient, net) ==
    LET v  == validate_token(llm_backend.token, llm_backend.llm_provider, None)
        t1 == <<Ev("validate_token", llm_backend.llm_provider, v.token, None, NoPrompt)>>
        s  == get_strategy(llm_backend.llm_provider, v.token, llm_backend.collection_name)
        t2 == Append(t1, Ev("get_strategy", llm_backend.llm_provider, v.token,
                            llm_backend.collection_name, NoPrompt))
    IN  IF rag.search.query = None THEN Done(<<>>, Raise("MissingQueryError"))
        ELSE IF ~v.ok THEN Done(t1, Raise("MissingCredentialError"))
        ELSE IF ~s.ok THEN Done(t2, Raise(s.error))
        ELSE AnswerWith(t2, s, rag, filtering, lenient, net)

\* POST /explanation/explain-qa
\* The handler builds its strategy from search.llm_backend.token, where `search`
\* is the module-level name of the search route handler: a function object has
\* no such attribute, reading it raises, and nothing after the credential
\* resolution runs.
explain_question_answer(explain_request, llm_backend) ==
    LET inner == explain_request.rag_request.search
        v  == validate_token(inner.llm_backend.token, inner.llm_backend.llm_provider, None)
        t1 == <<Ev("validate_token", inner.llm_backend.llm_provider, v.token, None, NoPrompt)>>
    IN  IF inner.query = None THEN Done(<<>>, Raise("MissingQueryError"))
        ELSE IF ~v.ok THEN Done(t1, Raise("MissingCredentialError"))
        ELSE Done(t1, Raise("AttributeError"))

\* POST /llm/completion/custom
custom_prompt_llm(request, net) ==
    LET b  == request.search.llm_backend
        s  == get_strategy(b.llm_provider, b.token, request.search.collection_name)
        t1 == <<Ev("get_strategy", b.llm_provider, b.token, request.search.collection_name, NoPrompt)>>
        prompt == [template |-> "custom", chunks |-> <<>>, history |-> request.text]
        t2 == Append(t1, Ev("complete", s.provider, s.token, s.collection, prompt))
    IN  IF ~s.ok THEN Done(t1, Raise(s.error))
        ELSE IF ~Served(s.provider, s.token, net) THEN Done(t2, Raise("ExternalServiceError"))
        ELSE Done(t2, Resp("ok", None, "str", <<>>, <<>>, prompt, Completion(prompt)))

\* The collection the delete route works on.
DeleteCollection(llm_provider) ==
    IF llm_provider = ALEPH_ALPHA THEN "aleph-alpha"
    ELSE IF llm_provider = OPENAI THEN "openai"
    ELSE IF llm_provider = GPT4ALL THEN "gpt4all"
    ELSE None

\* DELETE /embeddings/delete/{llm_provider}/{page}/{source}
delete(page, source, llm_provider) ==
    LET collection == DeleteCollection(llm_provider)
    IN  IF collection = None THEN Done(<<>>, Raise("ValueError"))
        ELSE [Done(<<Ev("delete", llm_provider, None, collection, NoPrompt)>>,
                   Resp("ok", None, "UpdateResult", <<>>, <<>>, NoPrompt, <<>>))
                EXCEPT !.store = StoreDelete(store, collection, page, source)]

----------------------------------------------------------------------------
\* The state machine.

Pages == {1, 2}

\* The llm_backend of a request; a caller of the local provider sends no token.
LLMBackends ==
    {b \in [llm_provider : Providers, token : ExplicitTokens, collection_name : CollectionNames] :
        b.llm_provider = GPT4ALL => b.token = None}

\* The metadata filters of the requests: none, a source, a source and one of
\* its pages.
Filterings ==
    {NoFilter} \cup
    {f \in [source : FileNames, pages : {{}} \cup {{p} : p \in Pages}] :
        \A p \in f.pages : p <= Len(Split(FileContent(f.source), PageBreak))}

\* The filters of the answer requests: none, or a source.
RagFilterings == {f \in Filterings : f.pages = {}}

SearchRequests == [query : Queries \ {None}, amount : TopKs]

Histories == UNION {[1..n -> {"hi"}] : n \in 0..MaxHistory}

\* The texts submitted to the text route: what the file of that name holds.
EmbeddTextRequests ==
    {[text |-> FileContent(n), file_name |-> n, seperator |-> sep] : n \in FileNames, sep \in Separators}

\* The fallbacks validate_token may take for an argument that is no provider;
\* the choice is open only when the request carries no token.
OtherFallbacks(token) ==
    IF IsEmptyToken(token) THEN {None, ALEPH_ALPHA_API_KEY, OPENAI_API_KEY} ELSE {None}

\* The chunk whose embedding may fail, among those of the batch.
FailPoints(chunks) == 0..Len(chunks)

\* Whether the store answers a query vector of another size is open only
\* when the collection exists and was created for another binding.
LenientChoices(llm_backend) ==
    LET coll == get_strategy(llm_backend.llm_provider, None, llm_backend.collection_name).collection
    IN  IF collDim[coll] \notin {llm_backend.llm_provider, None} THEN BOOLEAN ELSE {FALSE}

\* Whether a cloud provider serves a call made without a credential is open.
NetChoices(provider, token) ==
    IF provider \in CloudProviders /\ IsEmptyToken(token) THEN BOOLEAN ELSE {FALSE}

\* The process after start-up: the three provider collections exist and are
\* empty, the keys are whatever the environment held, no request is served.
Init ==
    /\ store = [c \in Collections |-> <<>>]
    /\ collDim = [c \in Collections |-> IF c \in CustomCollections THEN None ELSE c]
    /\ \E env \in Environments :
        /\ ALEPH_ALPHA_API_KEY = env.aleph_alpha
        /\ OPENAI_API_KEY = env.openai
    /\ req = Idle
    /\ trace = <<>>
    /\ resp = NoResp
    /\ committed = {}
    /\ embedFailed = FALSE

\* The handler of an arriving request runs.
Serve(r, out) ==
    /\ TotalRecords(out.store) <= MaxRecords
    /\ req' = r
    /\ trace' = out.trace
    /\ resp' = out.resp
    /\ store' = out.store
    /\ collDim' = out.collDim
    /\ committed' = out.committed
    /\ embedFailed' = out.failed
    /\ UNCHANGED <<ALEPH_ALPHA_API_KEY, OPENAI_API_KEY>>

BackendReq(endpoint, b) == Req(endpoint, b.llm_provider, b.token, b.collection_name)

CreateCollection ==
    /\ req = Idle
    /\ \E p \in Providers, c \in Collections :
        Serve(Req("create_collection", p, None, c), create_collection(p, c))

PostEmbeddDocuments ==
    /\ req = Idle
    /\ \E b \in LLMBackends, files \in FileLists :
        \E other \in OtherFallbacks(b.token),
           failAt \in FailPoints(IF HasUnnamed(files) THEN <<>> ELSE DocumentChunks(files)) :
            Serve([BackendReq("embed_documents", b) EXCEPT !.names = files],
                  post_embedd_documents(b, files, other, failAt))

EmbeddText ==
    /\ req = Idle
    /\ \E b \in LLMBackends, e \in EmbeddTextRequests :
        \E other \in OtherFallbacks(b.token),
           failAt \in FailPoints(ChunksOf(e.text, e.seperator, e.file_name)) :
            Serve([BackendReq("embed_text", b) EXCEPT !.names = <<e.file_name>>],
                  embedd_text(e, b, other, failAt))

EmbeddTextFiles ==
    /\ req = Idle
    /\ \E b \in LLMBackends, files \in FileLists, sep \in Separators :
        \E failAt \in FailPoints(IF HasUnnamed(files) THEN <<>>
                                 ELSE FlattenChunks(Dedup(files), sep)) :
            Serve([BackendReq("embed_text_files", b) EXCEPT !.names = files],
                  embedd_text_files([files |-> files, seperator |-> sep], b, failAt))

Search ==
    /\ req = Idle
    /\ \E b \in LLMBackends, q \in SearchRequests, f \in Filterings :
        \E lenient \in LenientChoices(b) :
            Serve([BackendReq("search", b) EXCEPT !.query = q.query, !.top_k = q.amount, !.filter = f],
                  search(q, b, f, lenient))

QuestionAnswer ==
    /\ req = Idle
    /\ \E b \in LLMBackends, q \in Queries, k \in TopKs, h \in Histories, f \in RagFilterings :
        \E lenient \in LenientChoices(b),
           net \in (IF h = <<>> THEN {FALSE} ELSE NetChoices(b.llm_provider, "")) :
            Serve([BackendReq("rag", b) EXCEPT !.query = q, !.top_k = k, !.filter = f, !.history = h],
                  question_answer([search |-> [query |-> q, amount |-> k], history |-> h],
                                  b, f, lenient, net))

\* The explain route reads the provider and the collection of llm_backend, and
\* the query, the provider and the token of the request's own search.
ExplainQuestionAnswer ==
    /\ req = Idle
    /\ \E p \in Providers, c \in CollectionNames,
       ib \in [llm_provider : Providers, token : ExplicitTokens], q \in Queries :
        Serve([Req("explain", p, ib.token, c) EXCEPT !.query = q],
              explain_question_answer(
                  [rag_request |-> [search |-> [query |-> q, llm_backend |-> ib]]],
                  [llm_provider |-> p, collection_name |-> c]))

CustomPromptLlm ==
    /\ req = Idle
    /\ \E p \in Providers, tok \in ExplicitTokens, c \in CollectionNames :
        \E net \in NetChoices(p, tok) :
            Serve(Req("custom_completion", p, tok, c),
                  custom_prompt_llm([text |-> <<"hi">>,
                                     search |-> [llm_backend |-> [llm_provider |-> p, token |-> tok],
                                                 collection_name |-> c]], net))

Delete ==
    /\ req = Idle
    /\ \E page \in Pages, source \in FileNames, p \in Providers :
        Serve([Req("delete", p, None, None) EXCEPT !.page = page, !.source = source],
              delete(page, source, p))

\* The response leaves and the request's locals with it.
Respond ==
    /\ req # Idle
    /\ req' = Idle
    /\ trace' = <<>>
    /\ resp' = NoResp
    /\ committed' = {}
    /\ embedFailed' = FALSE
    /\ UNCHANGED <<store, collDim, ALEPH_ALPHA_API_KEY, OPENAI_API_KEY>>

Next ==
    \/ CreateCollection
    \/ PostEmbeddDocuments
    \/ EmbeddText
    \/ EmbeddTextFiles
    \/ Search
    \/ QuestionAnswer
    \/ ExplainQuestionAnswer
    \/ CustomPromptLlm
    \/ Delete
    \/ Respond

Spec == Init /\ [][Next]_vars

----------------------------------------------------------------------------
\* Vocabulary of the properties.

EmbedEndpoints == {"embed_documents", "embed_text", "embed_text_files"}

PipelineEndpoints == EmbedEndpoints \cup {"search", "rag", "explain", "custom_completion"}

\* The calls that go to a provider or to the vector database.
ExternalOps == {"embed_documents", "summarize", "search", "complete", "explain", "delete",
                "create_collection"}

\* The operations of the trace, in order.
Ops == [i \in 1..Len(trace) |-> trace[i].op]

\* The collection the request's own binding works on.
RequestedCollection ==
    IF req.collection_name = None THEN DefaultCollection(req.provider) ELSE req.collection_name

\* The records the store returned to the search or answer request served, with
\* their provenance.
Returned(coll) ==
    StoreSearch(store, coll, req.query, req.top_k, req.filter.source, req.filter.pages)

\* The providers with attribution support: the explain route "only works with
\* Aleph Alpha".
SupportsAttribution(p) == p = ALEPH_ALPHA

----------------------------------------------------------------------------
\* C1: an answer request whose query is absent fails with the missing-query
\* error before any external step: no credential resolution, no strategy
\* selection, no summarize, search or completion call is made for it.
C1_MissingQueryFailsFast ==
    (req.endpoint = "rag" /\ req.query = None)
        => (resp.status = "error" /\ resp.error = "MissingQueryError" /\ trace = <<>>)

\* An answer request without a query, for a cloud provider whose credential
\* would not resolve, with history to summarize, has been served.
C1_Witness ==
    /\ req.endpoint = "rag"
    /\ req.query = None
    /\ req.provider = OPENAI
    /\ req.token = None
    /\ OPENAI_API_KEY = None
    /\ req.history # <<>>
    /\ resp.error = "MissingQueryError"

\* C2: in every pipeline request one provider binding is used end to end: the
\* credential is resolved for, the strategy is built for, and the operation runs
\* against the provider and collection of the request's llm_backend.
C2_OneBindingEndToEnd ==
    req.endpoint \in PipelineEndpoints =>
        \A i \in 1..Len(trace) :
            /\ trace[i].prov \in {req.provider, BackendObject}
            /\ trace[i].op \in ExternalOps => trace[i].coll = RequestedCollection

\* C3: a record stored by an embed request made with one provider is never
\* returned by a search request made with another, whatever collection names
\* the two requests supply.
C3_CrossProviderIsolation ==
    (req.endpoint = "search" /\ resp.status = "ok") =>
        \A k \in 1..Len(Returned(trace[3].coll)) :
            Returned(trace[3].coll)[k].doc.reqProvider = req.provider

\* C4: once delete(page, source) for a provider has completed, a search by that
\* provider filtered on that page and source returns an empty sequence, in every
\* collection holding records of that provider's embed requests; and delete
\* returns the number of records that matched.
C4_DeleteThenSearchEmpty ==
    (req.endpoint = "delete" /\ resp.status = "ok") =>
        /\ resp.shape = "count"
        /\ \A b \in LLMBackends, q \in SearchRequests :
             LET out  == search(q, b, [source |-> req.source, pages |-> {req.page}], FALSE)
                 coll == get_strategy(b.llm_provider, None, b.collection_name).collection
             IN  (/\ b.llm_provider = req.provider
                  /\ \E i \in 1..Len(store[coll]) : store[coll][i].reqProvider = req.provider
                  /\ out.resp.status = "ok")
                     => out.resp.results = <<>>

\* C5: a cloud provider's strategy is only ever built with a credential that is
\* not empty and that the same request resolved before building it.
C5_CredentialResolvedBeforeStrategy ==
    \A i \in 1..Len(trace) :
        (trace[i].op = "get_strategy" /\ trace[i].prov \in CloudProviders) =>
            /\ ~IsEmptyToken(trace[i].token)
            /\ \E j \in 1..(i - 1) :
                 trace[j].op = "validate_token" /\ trace[j].token = trace[i].token

\* C6: explain for a provider without attribution support fails with the
\* unsupported-operation error before any search, completion or attribution
\* call; explain with a query for a provider with attribution support runs
\* search, then attribution, and returns an explanation.
C6_ExplainContract ==
    (/\ req.endpoint = "explain"
     /\ req.query # None
     /\ Len(trace) >= 1
     /\ trace[1].prov = req.provider
     /\ Accepts(req.provider, trace[1].token)) =>
        IF SupportsAttribution(req.provider)
        THEN /\ resp.status = "ok"
             /\ resp.shape = "ExplainQAResponse"
             /\ \E i, j \in 1..Len(trace) : i < j /\ Ops[i] = "search" /\ Ops[j] = "explain"
        ELSE /\ resp.error = "UnsupportedOperationError"
             /\ \A i \in 1..Len(trace) : Ops[i] \notin {"search", "complete", "explain"}

\* C7: a search that matches no stored record (made with a credential its
\* provider accepts, on a collection of its binding) completes successfully and returns
\* an empty sequence of search results, the result type of a search that
\* matches some.
C7_EmptySearchIsEmptyList ==
    (/\ req.endpoint = "search"
     /\ Len(trace) = 3
     /\ Accepts(trace[3].prov, trace[3].token)
     /\ collDim[trace[3].coll] = trace[3].prov
     /\ Returned(trace[3].coll) = <<>>)
        => (resp.status = "ok" /\ resp.shape = "list" /\ resp.results = <<>>)

\* C8: when an embedding of a batch fails, the caller is told which inputs were
\* committed and which were not; a success response lists an input only if it
\* was embedded and stored; what was committed before the failure stays stored.
C8_BatchOutcomeReported ==
    req.endpoint \in EmbedEndpoints =>
        /\ embedFailed =>
             /\ resp.shape # "exception"
             /\ {resp.files[i] : i \in 1..Len(resp.files)} = committed
        /\ resp.status = "ok" => \A i \in 1..Len(resp.files) : resp.files[i] \in committed
        /\ \A n \in committed :
             \E c \in Collections : \E i \in 1..Len(store[c]) : store[c][i].source = n

\* C9: an answer request with a query makes, in this order, one summarize call
\* when there is history (none when there is not), the search, and one
\* completion call; the prompt holds the summary of the history and the
\* retrieved chunks in search-result order, and is the prompt returned.
C9_AnswerPipelineOrder ==
    (req.endpoint = "rag" /\ resp.status = "ok") =>
        /\ Ops = IF req.history # <<>>
                 THEN <<"validate_token", "get_strategy", "summarize", "search", "complete">>
                 ELSE <<"validate_token", "get_strategy", "search", "complete">>
        /\ resp.prompt = trace[Len(trace)].prompt
        /\ resp.prompt.chunks =
             [k \in 1..Len(Returned(trace[Len(trace)].coll)) |->
                 Returned(trace[Len(trace)].coll)[k].doc.text]
        /\ req.history # <<>> =>
             resp.prompt.history = Summary(combine_text_from_list(req.history))

\* C10: a chunk an embed request of provider P stored with page p and source s is
\* among the results, with page p, of a search by P on the same collection name
\* filtered on s, when that search completes (the query being relevant to the
\* chunk and top_k not cutting it off).
C10_EmbedSearchRoundTrip ==
    (/\ req.endpoint = "search"
     /\ resp.status = "ok"
     /\ req.filter.source # None
     /\ req.filter.pages = {}
     /\ req.top_k >= MaxRecords) =>
        \A c \in Collections : \A i \in 1..Len(store[c]) :
            (/\ store[c][i].reqProvider = req.provider
             /\ store[c][i].reqCollection = req.collection_name
             /\ store[c][i].source = req.filter.source
             /\ Score(req.query, store[c][i].text) > 0) =>
                \E k \in 1..Len(resp.results) :
                    /\ resp.results[k].text = store[c][i].text
                    /\ resp.results[k].page = store[c][i].page

\* C11: when the search service returns a non-empty list of (document, score)
\* pairs, the response of the search route has exactly one entry per pair, in
\* the same order, and entry i carries the text, page, source and score of
\* pair i unchanged.
C11_SearchResponsePerPair ==
    (/\ req.endpoint = "search"
     /\ resp.status = "ok"
     /\ Returned(trace[3].coll) # <<>>) =>
        LET docs == AsDocuments(Returned(trace[3].coll))
        IN  /\ resp.shape = "list"
            /\ Len(resp.results) = Len(docs)
            /\ \A i \in 1..Len(docs) :
                 /\ resp.results[i].text = docs[i].doc.page_content
                 /\ resp.results[i].page = docs[i].doc.metadata.page
                 /\ resp.results[i].source = docs[i].doc.metadata.source
                 /\ resp.results[i].score = docs[i].score

\* A search answered with two entries of different scores, the record stored
\* second ranked first.
C11_Witness ==
    /\ req.endpoint = "search"
    /\ resp.shape = "list"
    /\ Len(resp.results) = 2
    /\ resp.results[1].page = 2
    /\ resp.results[2].page = 1
    /\ resp.results[1].score > resp.results[2].score
    /\ resp.results[1].text # resp.results[2].text

====
